---- MODULE Spec2Model ----
(***************************************************************************)
(* Model of packages/sdk-plugin/src/index.ts: the graphql-codegen plugin   *)
(* entry points `plugin` and `validate`, and the node inspector functions  *)
(* hasOptionalVariable, isIdVariable, isRequiredVariable and getTypeName.  *)
(*                                                                         *)
(* The host invokes one entry point at a time and nothing survives an      *)
(* invocation, so the state is the frame of the current invocation: `call` *)
(* holds the arguments and the outcome of the last inspector or validate   *)
(* call, the other variables are the locals of a run of `plugin`.          *)
(***************************************************************************)
EXTENDS Integers, Sequences, FiniteSets

VARIABLES
    pc,             \* position of the host / of the running plugin call
    call,           \* last call of an inspector function or of validate
    documents,      \* plugin argument: the document files
    config,         \* plugin argument: the raw plugin configuration
    sdkDocuments,   \* const sdkDocuments
    rootDocuments,  \* const rootDocuments
    rootFragments,  \* const rootFragments
    rootVisitor,    \* const rootVisitor
    chainKeys,      \* const chainKeys
    chainVisitors,  \* the array chainKeys.map(...) is building
    fatalLog,       \* values passed to logger.fatal
    raised,         \* the exception a step of plugin raised, if any
    thrown,         \* the exception plugin itself propagated, if any
    result          \* the value plugin returned, if any

vars == <<pc, call, documents, config, sdkDocuments, rootDocuments,
          rootFragments, rootVisitor, chainKeys, chainVisitors,
          fatalLog, raised, thrown, result>>

(***************************************************************************)
(* Bounds of the model                                                     *)
(***************************************************************************)
MaxVars == 2        \* variable definitions per operation
MaxDepth == 3       \* wrappers around a base type node
MaxPathLen == 4     \* characters of an output file path
MaxDocs == 3        \* documents handed to plugin

SeqsUpTo(S, n) == UNION {[1..k -> S] : k \in 0..n}

Range(s) == {s[i] : i \in DOMAIN s}

(***************************************************************************)
(* JavaScript values.  A string that may stand where a node may stand too  *)
(* is tagged with its typeof; an absent property is an absent field.       *)
(***************************************************************************)
JsString(s) == [typeof |-> "string", value |-> s]

JsUndefined == [typeof |-> "undefined"]

IsString(x) == "typeof" \in DOMAIN x /\ x.typeof = "string"

IsUndefined(x) == "typeof" \in DOMAIN x /\ x.typeof = "undefined"

(***************************************************************************)
(* graphql Kind values and AST nodes                                       *)
(***************************************************************************)
NON_NULL_TYPE == "NonNullType"

NAMED_TYPE == "NamedType"

LIST_TYPE == "ListType"

NAME == "Name"

NameNode(s) == [kind |-> NAME, value |-> JsString(s)]

NamedTypeNode(s) == [kind |-> NAMED_TYPE, name |-> NameNode(s)]

NonNullTypeNode(t) == [kind |-> NON_NULL_TYPE, type |-> t]

ListTypeNode(t) == [kind |-> LIST_TYPE, type |-> t]

\* a node of a kind getTypeName does not know
OtherNode == [kind |-> "Variable"]

ID_NAME == "id"

UNKNOWN_OPERATION_TYPE == "UNKNOWN_OPERATION_TYPE"

(***************************************************************************)
(* Inspector functions                                                     *)
(***************************************************************************)
isRequiredVariable(v) == v.type.kind = NON_NULL_TYPE

isIdVariable_anyName(v) == isRequiredVariable(v)

isIdVariable(v) == v.variable.name.value = JsString(ID_NAME) /\ isRequiredVariable(v)

\* v.defaultValue is a value node or undefined: truthy iff present
HasDefaultValue(v) == "defaultValue" \in DOMAIN v

hasOptionalVariable_noDefault(o) ==
    \/ "variableDefinitions" \notin DOMAIN o.node
    \/ Len(o.node.variableDefinitions) = 0
    \/ \A i \in DOMAIN o.node.variableDefinitions :
          LET v == o.node.variableDefinitions[i] IN
          \/ (IF Len(o.path) # 0 THEN isIdVariable(v) ELSE FALSE)
          \/ ~isRequiredVariable(v)

hasOptionalVariable_anyPath(o) ==
    \/ "variableDefinitions" \notin DOMAIN o.node
    \/ Len(o.node.variableDefinitions) = 0
    \/ \A i \in DOMAIN o.node.variableDefinitions :
          LET v == o.node.variableDefinitions[i] IN
          \/ isIdVariable(v)
          \/ ~isRequiredVariable(v)
          \/ HasDefaultValue(v)

hasOptionalVariable(o) ==
    \/ "variableDefinitions" \notin DOMAIN o.node
    \/ Len(o.node.variableDefinitions) = 0
    \/ \A i \in DOMAIN o.node.variableDefinitions :
          LET v == o.node.variableDefinitions[i] IN
          \/ (IF Len(o.path) # 0 THEN isIdVariable(v) ELSE FALSE)
          \/ ~isRequiredVariable(v)
          \/ HasDefaultValue(v)

\* The outcome of a call: a returned string, or a TypeError thrown by
\* reading a property of undefined.
Returns(s) == [throws |-> FALSE, value |-> s]

TypeError == [throws |-> TRUE, value |-> "TypeError"]

RECURSIVE getTypeName_noFallback(_)
getTypeName_noFallback(type) ==
    IF IsString(type) THEN Returns(type.value)
    ELSE IF IsUndefined(type) THEN TypeError
    ELSE IF type.kind = NON_NULL_TYPE THEN getTypeName_noFallback(type.type)
    ELSE IF type.kind = NAMED_TYPE THEN getTypeName_noFallback(type.name)
    ELSE IF type.kind = NAME THEN getTypeName_noFallback(type.value)
    ELSE IF type.kind = LIST_TYPE THEN getTypeName_noFallback(type.type)
    ELSE TypeError

RECURSIVE getTypeName_noList(_)
getTypeName_noList(type) ==
    IF IsString(type) THEN Returns(type.value)
    ELSE IF IsUndefined(type) THEN TypeError
    ELSE IF type.kind = NON_NULL_TYPE THEN getTypeName_noList(type.type)
    ELSE IF type.kind = NAMED_TYPE THEN getTypeName_noList(type.name)
    ELSE IF type.kind = NAME THEN getTypeName_noList(type.value)
    ELSE Returns(UNKNOWN_OPERATION_TYPE)

RECURSIVE getTypeName(_)
getTypeName(type) ==
    IF IsString(type) THEN Returns(type.value)
    ELSE IF IsUndefined(type) THEN TypeError     \* undefined.kind
    ELSE IF type.kind = NON_NULL_TYPE THEN getTypeName(type.type)
    ELSE IF type.kind = NAMED_TYPE THEN getTypeName(type.name)
    ELSE IF type.kind = NAME THEN getTypeName(type.value)
    ELSE IF type.kind = LIST_TYPE THEN getTypeName(type.type)
    ELSE Returns(UNKNOWN_OPERATION_TYPE)

(***************************************************************************)
(* Inputs of the inspector functions                                       *)
(***************************************************************************)
TypeNames == {"String", "Issue"}

VarNames == {ID_NAME, "input"}

BaseTypes ==
    {NamedTypeNode(n) : n \in TypeNames} \cup {NameNode(n) : n \in TypeNames}
        \cup {JsString(n) : n \in TypeNames} \cup {OtherNode, JsUndefined}

\* the nodes of S under at most d non-null and list wrappers
RECURSIVE Wrappings(_, _)
Wrappings(S, d) ==
    IF d = 0 THEN S
    ELSE LET inner == Wrappings(S, d - 1) IN
         inner \cup {NonNullTypeNode(t) : t \in inner}
               \cup {ListTypeNode(t) : t \in inner}

TypeNodes == Wrappings(BaseTypes, MaxDepth)

VarTypes ==
    {NamedTypeNode("String"), NonNullTypeNode(NamedTypeNode("String")),
     ListTypeNode(NonNullTypeNode(NamedTypeNode("String")))}

VariableDefinitions ==
    {[variable |-> [name |-> NameNode(n)], type |-> t] :
        n \in VarNames, t \in VarTypes}
    \cup {[variable |-> [name |-> NameNode(n)], type |-> t,
           defaultValue |-> [kind |-> "StringValue"]] :
        n \in VarNames, t \in VarTypes}

OperationNodes ==
    {[kind |-> "OperationDefinition"]}
    \cup {[kind |-> "OperationDefinition", variableDefinitions |-> vs] :
            vs \in SeqsUpTo(VariableDefinitions, MaxVars)}

OperationPaths == {<<>>, <<"issue">>}

ApiDefinitions == {[path |-> p, node |-> n] : p \in OperationPaths, n \in OperationNodes}

NoCall == [fn |-> "none"]

(***************************************************************************)
(* path.extname (POSIX), as Node computes it: one backwards scan over the  *)
(* characters of the path.  Indices are the 0-based indices of the code.   *)
(***************************************************************************)
RECURSIVE extnameScan(_, _, _)
extnameScan(path, i, st) ==
    IF i < 0 THEN st
    ELSE LET code == path[i + 1] IN
         IF code = "/"
         THEN IF ~st.matchedSlash
              THEN [st EXCEPT !.startPart = i + 1]
              ELSE extnameScan(path, i - 1, st)
         ELSE LET s1 == IF st.end = -1
                        THEN [st EXCEPT !.matchedSlash = FALSE, !.end = i + 1]
                        ELSE st
                  s2 == IF code = "."
                        THEN IF s1.startDot = -1
                             THEN [s1 EXCEPT !.startDot = i]
                             ELSE IF s1.preDotState # 1
                                  THEN [s1 EXCEPT !.preDotState = 1]
                                  ELSE s1
                        ELSE IF s1.startDot # -1
                             THEN [s1 EXCEPT !.preDotState = -1]
                             ELSE s1
              IN extnameScan(path, i - 1, s2)

extname(path) ==
    LET st == extnameScan(path, Len(path) - 1,
                          [startDot |-> -1, startPart |-> 0, end |-> -1,
                           matchedSlash |-> TRUE, preDotState |-> 0])
    IN IF \/ st.startDot = -1
          \/ st.end = -1
          \/ st.preDotState = 0
          \/ (st.preDotState = 1 /\ st.startDot = st.end - 1
                /\ st.startDot = st.startPart + 1)
       THEN <<>>
       ELSE SubSeq(path, st.startDot + 1, st.end)

(***************************************************************************)
(* validate                                                                *)
(***************************************************************************)
packageName == "@linear/sdk-plugin"

DotTs == <<".", "t", "s">>

\* !x of JavaScript
Falsy(x) ==
    CASE x.typeof = "undefined" -> TRUE
      [] x.typeof = "string" -> x.value = ""
      [] x.typeof = "number" -> x.value = 0
      [] OTHER -> FALSE

ExtensionError(outputFile) ==
    [plugin |-> packageName, requires |-> "output file extension to be .ts",
     but |-> outputFile]

DocumentFileError ==
    [plugin |-> packageName, requires |-> "documentFile to be a string path"]

Resolved == [threw |-> FALSE]

Rejected(e) == [threw |-> TRUE, error |-> e]

validate_suffix(outputFile, cfg) ==
    IF ~(Len(outputFile) >= 3
           /\ SubSeq(outputFile, Len(outputFile) - 2, Len(outputFile)) = DotTs)
    THEN Rejected(ExtensionError(outputFile))
    ELSE IF Falsy(cfg.documentFile) \/ cfg.documentFile.typeof # "string"
    THEN Rejected(DocumentFileError)
    ELSE Resolved

validate(outputFile, cfg) ==
    IF extname(outputFile) # DotTs
    THEN Rejected(ExtensionError(outputFile))
    ELSE IF Falsy(cfg.documentFile) \/ cfg.documentFile.typeof # "string"
    THEN Rejected(DocumentFileError)
    ELSE Resolved

PathChars == {"o", ".", "/", "t", "s", "j"}

OutputFiles == SeqsUpTo(PathChars, MaxPathLen)

DocumentModeString == "string"

DocumentModes == {DocumentModeString, "documentNode", "undefined"}

DocumentFileValues ==
    {JsUndefined, JsString(""), JsString("./documents.ts"),
     [typeof |-> "number", value |-> 5]}

ValidateConfigs ==
    {[documentFile |-> f, documentMode |-> DocumentModeString] : f \in DocumentFileValues}

(***************************************************************************)
(* Collaborators of plugin: the document classifier (./documents), the     *)
(* fragment extraction (./fragments), the visitor (./sdk-visitor), the     *)
(* requester printer (./requester) and the helpers of @linear/common.      *)
(***************************************************************************)
NAMESPACE_DOCUMENT == "D"

\* every document file becomes one sdk document carrying its chain path
processSdkDocuments(docs) == docs

getRootDocuments(docs) == SelectSeq(docs, LAMBDA d : Len(d.path) = 0)

getChildDocuments(docs, chainKey) ==
    SelectSeq(docs, LAMBDA d : Len(d.path) # 0 /\ d.path[1] = chainKey)

\* the distinct leading path segments, in order of first appearance
RECURSIVE getChainKeys(_)
getChainKeys(docs) ==
    IF Len(docs) = 0 THEN <<>>
    ELSE LET n == Len(docs)
             before == getChainKeys(SubSeq(docs, 1, n - 1))
             d == docs[n]
         IN IF Len(d.path) = 0 \/ d.path[1] \in Range(before)
            THEN before
            ELSE Append(before, d.path[1])

concatAST(docs) == [kind |-> "Document", definitions |-> docs]

\* the fragment definitions of the ast, named by the document they come from
getFragmentsFromAst(ast, cfg) ==
    [i \in DOMAIN ast.definitions |-> [fragment |-> ast.definitions[i].location]]

SdkContent(chainKey) == [text |-> "sdk", chainKey |-> chainKey]

RootKey == "undefined"

createVisitor(schema, allDocs, docs, fragments, cfg, chainKey) ==
    [documents |-> docs, fragments |-> fragments, chainKey |-> chainKey,
     visitor |-> [sdkContent |-> SdkContent(chainKey)]]

printRequesterType(cfg) == <<[text |-> "requester type"]>>

nonNullable(x) == ~IsUndefined(x)

Separator(sep) == [text |-> sep]

RECURSIVE Join(_, _)
Join(a, sep) ==
    IF Len(a) = 0 THEN <<>>
    ELSE IF Len(a) = 1 THEN a
    ELSE Join(SubSeq(a, 1, Len(a) - 1), sep) \o <<Separator(sep), a[Len(a)]>>

\* drop the entries that are not text, join the rest with the separator
filterJoin(a, sep) == Join(SelectSeq(a, nonNullable), sep)

EslintDisable == [text |-> "/* eslint-disable @typescript-eslint/no-unused-vars */"]

ImportDocumentNode == [text |-> "import { DocumentNode } from 'graphql'"]

ImportResultOf == [text |-> "import { ResultOf } from '@graphql-typed-document-node/core'"]

ImportDocuments(cfg) ==
    [text |-> "import * as", namespace |-> NAMESPACE_DOCUMENT, from |-> cfg.documentFile]

ExportDocuments(cfg) == [text |-> "export * from", from |-> cfg.documentFile]

(***************************************************************************)
(* Inputs of plugin                                                        *)
(***************************************************************************)
DocumentPaths == {<<>>, <<"issue">>, <<"team">>, <<"issue", "team">>}

DocumentLists ==
    {[i \in DOMAIN ps |-> [location |-> i, path |-> ps[i]]] :
        ps \in SeqsUpTo(DocumentPaths, MaxDocs)}

PluginConfigs ==
    {[documentFile |-> JsString("./documents.ts"), documentMode |-> m] :
        m \in DocumentModes}

Exceptions == {"Error: a", "Error: b"}

NoException == "none"

NotRaised == [error |-> NoException, step |-> "none"]

TrySteps ==
    <<"processSdkDocuments", "getRootDocuments", "getFragmentsFromAst",
      "createRootVisitor", "getChainKeys", "createChainVisitors", "print">>

HostSteps == {"called", "returned", "thrown"}

(***************************************************************************)
(* The state machine                                                       *)
(***************************************************************************)
Schema == [kind |-> "GraphQLSchema"]

Init ==
    /\ pc = "idle"
    /\ call = NoCall
    /\ documents = <<>>
    /\ config = JsUndefined
    /\ sdkDocuments = <<>>
    /\ rootDocuments = <<>>
    /\ rootFragments = <<>>
    /\ rootVisitor = JsUndefined
    /\ chainKeys = <<>>
    /\ chainVisitors = <<>>
    /\ fatalLog = <<>>
    /\ raised = NotRaised
    /\ thrown = NoException
    /\ result = JsUndefined

\* the host invokes an entry point when no invocation is in progress
CallHasOptionalVariable(o) ==
    /\ pc = "idle"
    /\ call' = [fn |-> "hasOptionalVariable", o |-> o, ret |-> hasOptionalVariable(o)]
    /\ pc' = "called"
    /\ UNCHANGED <<documents, config, sdkDocuments, rootDocuments,
                   rootFragments, rootVisitor, chainKeys, chainVisitors,
                   fatalLog, raised, thrown, result>>

CallGetTypeName(type) ==
    /\ pc = "idle"
    /\ call' = [fn |-> "getTypeName", type |-> type, ret |-> getTypeName(type)]
    /\ pc' = "called"
    /\ UNCHANGED <<documents, config, sdkDocuments, rootDocuments,
                   rootFragments, rootVisitor, chainKeys, chainVisitors,
                   fatalLog, raised, thrown, result>>

CallValidate(outputFile, cfg) ==
    /\ pc = "idle"
    /\ call' = [fn |-> "validate", outputFile |-> outputFile, config |-> cfg,
                ret |-> validate(outputFile, cfg)]
    /\ pc' = "called"
    /\ UNCHANGED <<documents, config, sdkDocuments, rootDocuments,
                   rootFragments, rootVisitor, chainKeys, chainVisitors,
                   fatalLog, raised, thrown, result>>

CallPlugin(docs, cfg) ==
    /\ pc = "idle"
    /\ documents' = docs
    /\ config' = cfg
    /\ pc' = "processSdkDocuments"
    /\ UNCHANGED <<call, sdkDocuments, rootDocuments, rootFragments,
                   rootVisitor, chainKeys, chainVisitors, fatalLog, raised,
                   thrown, result>>

\* the invocation is over: nothing of it is kept
Discard ==
    /\ pc \in HostSteps
    /\ pc' = "idle"
    /\ call' = NoCall
    /\ documents' = <<>>
    /\ config' = JsUndefined
    /\ sdkDocuments' = <<>>
    /\ rootDocuments' = <<>>
    /\ rootFragments' = <<>>
    /\ rootVisitor' = JsUndefined
    /\ chainKeys' = <<>>
    /\ chainVisitors' = <<>>
    /\ fatalLog' = <<>>
    /\ raised' = NotRaised
    /\ thrown' = NoException
    /\ result' = JsUndefined

ProcessSdkDocuments ==
    /\ pc = "processSdkDocuments"
    /\ sdkDocuments' = processSdkDocuments(documents)
    /\ pc' = "getRootDocuments"
    /\ UNCHANGED <<call, documents, config, rootDocuments, rootFragments,
                   rootVisitor, chainKeys, chainVisitors, fatalLog, raised,
                   thrown, result>>

GetRootDocuments ==
    /\ pc = "getRootDocuments"
    /\ rootDocuments' = getRootDocuments(sdkDocuments)
    /\ pc' = "getFragmentsFromAst"
    /\ UNCHANGED <<call, documents, config, sdkDocuments, rootFragments,
                   rootVisitor, chainKeys, chainVisitors, fatalLog, raised,
                   thrown, result>>

GetFragmentsFromAst ==
    /\ pc = "getFragmentsFromAst"
    /\ LET rootAst == concatAST(rootDocuments) IN
       rootFragments' = getFragmentsFromAst(rootAst, config)
    /\ pc' = "createRootVisitor"
    /\ UNCHANGED <<call, documents, config, sdkDocuments, rootDocuments,
                   rootVisitor, chainKeys, chainVisitors, fatalLog, raised,
                   thrown, result>>

CreateRootVisitor ==
    /\ pc = "createRootVisitor"
    /\ rootVisitor' = createVisitor(Schema, documents, rootDocuments,
                                    rootFragments, config, RootKey)
    /\ pc' = "getChainKeys"
    /\ UNCHANGED <<call, documents, config, sdkDocuments, rootDocuments,
                   rootFragments, chainKeys, chainVisitors, fatalLog, raised,
                   thrown, result>>

GetChainKeys ==
    /\ pc = "getChainKeys"
    /\ chainKeys' = getChainKeys(sdkDocuments)
    /\ pc' = IF Len(chainKeys') = 0 THEN "print" ELSE "createChainVisitors"
    /\ UNCHANGED <<call, documents, config, sdkDocuments, rootDocuments,
                   rootFragments, rootVisitor, chainVisitors, fatalLog, raised,
                   thrown, result>>

\* one call of the callback of chainKeys.map
CreateChainVisitor_rootDocuments ==
    /\ pc = "createChainVisitors"
    /\ Len(chainVisitors) < Len(chainKeys)
    /\ LET chainKey == chainKeys[Len(chainVisitors) + 1] IN
       chainVisitors' = Append(chainVisitors,
            createVisitor(Schema, documents, rootDocuments, rootFragments,
                          config, chainKey))
    /\ pc' = IF Len(chainVisitors') = Len(chainKeys) THEN "print" ELSE pc
    /\ UNCHANGED <<call, documents, config, sdkDocuments, rootDocuments,
                   rootFragments, rootVisitor, chainKeys, fatalLog, raised,
                   thrown, result>>

CreateChainVisitor ==
    /\ pc = "createChainVisitors"
    /\ Len(chainVisitors) < Len(chainKeys)
    /\ LET chainKey == chainKeys[Len(chainVisitors) + 1]
           chainDocuments == getChildDocuments(sdkDocuments, chainKey)
       IN chainVisitors' = Append(chainVisitors,
            createVisitor(Schema, documents, chainDocuments, rootFragments,
                          config, chainKey))
    /\ pc' = IF Len(chainVisitors') = Len(chainKeys) THEN "print" ELSE pc
    /\ UNCHANGED <<call, documents, config, sdkDocuments, rootDocuments,
                   rootFragments, rootVisitor, chainKeys, fatalLog, raised,
                   thrown, result>>

Prepend_noFilter(cfg) ==
    <<EslintDisable,
      IF cfg.documentMode # DocumentModeString THEN ImportDocumentNode ELSE JsUndefined,
      ImportResultOf>>

Prepend(cfg) ==
    SelectSeq(
        <<EslintDisable,
          IF cfg.documentMode # DocumentModeString THEN ImportDocumentNode ELSE JsUndefined,
          ImportResultOf>>,
        nonNullable)

Content_rootFirst(cfg, rootV, chainVs) ==
    filterJoin(
        <<ImportDocuments(cfg), ExportDocuments(cfg)>>
            \o printRequesterType(cfg)
            \o <<rootV.visitor.sdkContent>>
            \o [i \in DOMAIN chainVs |-> chainVs[i].visitor.sdkContent],
        "\n")

Content(cfg, rootV, chainVs) ==
    filterJoin(
        <<ImportDocuments(cfg), ExportDocuments(cfg)>>
            \o printRequesterType(cfg)
            \o [i \in DOMAIN chainVs |-> chainVs[i].visitor.sdkContent]
            \o <<rootV.visitor.sdkContent>>,
        "\n")

PrintSdk ==
    /\ pc = "print"
    /\ result' = [prepend |-> Prepend(config),
                  content |-> Content(config, rootVisitor, chainVisitors)]
    /\ pc' = "returned"
    /\ UNCHANGED <<call, documents, config, sdkDocuments, rootDocuments,
                   rootFragments, rootVisitor, chainKeys, chainVisitors,
                   fatalLog, raised, thrown>>

\* a step inside the try block raises e: the catch block logs and rethrows
Raise_swallow(e) ==
    /\ pc \in Range(TrySteps)
    /\ raised' = [error |-> e, step |-> pc]
    /\ fatalLog' = Append(fatalLog, e)
    /\ thrown' = NoException
    /\ result' = [prepend |-> <<>>, content |-> <<>>]
    /\ pc' = "returned"
    /\ UNCHANGED <<call, documents, config, sdkDocuments, rootDocuments,
                   rootFragments, rootVisitor, chainKeys, chainVisitors>>

Raise(e) ==
    /\ pc \in Range(TrySteps)
    /\ raised' = [error |-> e, step |-> pc]
    /\ fatalLog' = Append(fatalLog, e)
    /\ thrown' = e
    /\ pc' = "thrown"
    /\ UNCHANGED <<call, documents, config, sdkDocuments, rootDocuments,
                   rootFragments, rootVisitor, chainKeys, chainVisitors,
                   result>>

Next ==
    \/ \E o \in ApiDefinitions : CallHasOptionalVariable(o)
    \/ \E type \in TypeNodes : CallGetTypeName(type)
    \/ \E outputFile \in OutputFiles, cfg \in ValidateConfigs :
          CallValidate(outputFile, cfg)
    \/ \E docs \in DocumentLists, cfg \in PluginConfigs : CallPlugin(docs, cfg)
    \/ ProcessSdkDocuments
    \/ GetRootDocuments
    \/ GetFragmentsFromAst
    \/ CreateRootVisitor
    \/ GetChainKeys
    \/ CreateChainVisitor
    \/ PrintSdk
    \/ \E e \in Exceptions : Raise(e)
    \/ Discard

Spec == Init /\ [][Next]_vars

(***************************************************************************)
(* Properties of hasOptionalVariable                                       *)
(***************************************************************************)
CalledHasOptionalVariable == call.fn = "hasOptionalVariable"

VarsOf(o) ==
    IF "variableDefinitions" \in DOMAIN o.node
    THEN Range(o.node.variableDefinitions)
    ELSE {}

NamedId(v) == v.variable.name.value.value = "id"

Required(v) == v.type.kind = "NonNullType"

\* C1, as stated: hasOptionalVariable(o) is true exactly when the variable
\* list is absent or empty or every variable is (i) named "id" and required,
\* or (ii) not required, or (iii) has a default value, whatever the path.
C1_AsStated ==
    CalledHasOptionalVariable =>
        (call.ret <=>
            \A v \in VarsOf(call.o) :
                (NamedId(v) /\ Required(v)) \/ ~Required(v) \/ HasDefaultValue(v))

\* C1, amended: hasOptionalVariable(o) is true exactly when the variable list
\* is absent or empty or every variable is (i) named "id" and required, in an
\* operation whose path is non-empty, or (ii) not required, or (iii) has a
\* default value.  So the result is false exactly when some variable is
\* required, has no default value, and is not named "id" or belongs to an
\* operation with an empty path.
C1_OptionalVariable ==
    CalledHasOptionalVariable =>
        /\ call.ret <=>
            \A v \in VarsOf(call.o) :
                \/ (NamedId(v) /\ Required(v) /\ call.o.path # <<>>)
                \/ ~Required(v)
                \/ HasDefaultValue(v)
        /\ ~call.ret <=>
            \E v \in VarsOf(call.o) :
                /\ Required(v)
                /\ ~HasDefaultValue(v)
                /\ (~NamedId(v) \/ call.o.path = <<>>)
        /\ VarsOf(call.o) = {} => call.ret

\* the case C1 is amended for: a required "id" without default, empty path
C1_Witness ==
    /\ CalledHasOptionalVariable
    /\ call.o.path = <<>>
    /\ \E v \in VarsOf(call.o) : NamedId(v) /\ Required(v) /\ ~HasDefaultValue(v)
    /\ \A v \in VarsOf(call.o) : NamedId(v) \/ ~Required(v) \/ HasDefaultValue(v)
    /\ call.ret = FALSE

\* C2: when some variable of the operation is required, is not named "id" and
\* has no default value, hasOptionalVariable returns false, for an empty and
\* for a non-empty path and whatever the other variables are.
C2_RequiredVariableForcesFalse ==
    (/\ CalledHasOptionalVariable
     /\ \E v \in VarsOf(call.o) : Required(v) /\ ~NamedId(v) /\ ~HasDefaultValue(v))
        => call.ret = FALSE

\* [id: NonNull, input: NonNull] under a non-empty path
C2_Witness ==
    /\ CalledHasOptionalVariable
    /\ call.o.path # <<>>
    /\ "variableDefinitions" \in DOMAIN call.o.node
    /\ Len(call.o.node.variableDefinitions) = 2
    /\ LET v1 == call.o.node.variableDefinitions[1]
           v2 == call.o.node.variableDefinitions[2]
       IN /\ NamedId(v1) /\ Required(v1) /\ ~HasDefaultValue(v1)
          /\ ~NamedId(v2) /\ Required(v2) /\ ~HasDefaultValue(v2)
    /\ call.ret = FALSE

\* C3: for an operation whose only variable is a required variable named
\* "id" without default value, hasOptionalVariable returns true when the
\* path is non-empty and false when the path is empty.
C3_IdExemptionNeedsPath ==
    (/\ CalledHasOptionalVariable
     /\ "variableDefinitions" \in DOMAIN call.o.node
     /\ Len(call.o.node.variableDefinitions) = 1
     /\ LET v == call.o.node.variableDefinitions[1]
        IN NamedId(v) /\ Required(v) /\ ~HasDefaultValue(v))
        => (call.ret <=> call.o.path # <<>>)

C3_Witness ==
    /\ CalledHasOptionalVariable
    /\ call.o.path # <<>>
    /\ "variableDefinitions" \in DOMAIN call.o.node
    /\ Len(call.o.node.variableDefinitions) = 1
    /\ LET v == call.o.node.variableDefinitions[1]
       IN NamedId(v) /\ Required(v) /\ ~HasDefaultValue(v)
    /\ call.ret = TRUE

(***************************************************************************)
(* Properties of getTypeName                                               *)
(***************************************************************************)
CalledGetTypeName == call.fn = "getTypeName"

\* C5: under any nesting of non-null and list wrappers around the named type
\* T, getTypeName returns what it returns for the bare named type, the name
\* of T; applied to the string it returned, it returns that string unchanged.
C5_TypeNameUnderWrapping ==
    CalledGetTypeName =>
        \A n \in TypeNames :
            call.type \in Wrappings({NamedTypeNode(n)}, MaxDepth) =>
                /\ call.ret = [throws |-> FALSE, value |-> n]
                /\ call.ret = getTypeName(NamedTypeNode(n))
                /\ getTypeName(JsString(call.ret.value)) = call.ret

\* NonNull(List(NonNull(Named(T))))
C5_Witness ==
    /\ CalledGetTypeName
    /\ \E n \in TypeNames :
          /\ call.type = NonNullTypeNode(ListTypeNode(NonNullTypeNode(NamedTypeNode(n))))
          /\ call.ret = [throws |-> FALSE, value |-> n]

\* C6: for a node of a kind other than non-null, named type, name and list,
\* under any nesting of wrappers, getTypeName returns the sentinel
\* "UNKNOWN_OPERATION_TYPE" and does not throw; it returns for every finite
\* type node.
C6_UnknownKindGivesSentinel ==
    CalledGetTypeName =>
        /\ call.type \in Wrappings({OtherNode}, MaxDepth) =>
              call.ret = [throws |-> FALSE, value |-> "UNKNOWN_OPERATION_TYPE"]
        /\ call.type \in Wrappings(BaseTypes \ {JsUndefined}, MaxDepth) =>
              ~call.ret.throws

C6_Witness ==
    /\ CalledGetTypeName
    /\ call.type = ListTypeNode(NonNullTypeNode(OtherNode))
    /\ call.ret = [throws |-> FALSE, value |-> "UNKNOWN_OPERATION_TYPE"]

(***************************************************************************)
(* Properties of validate                                                  *)
(***************************************************************************)
CalledValidate == call.fn = "validate"

EndsInDotTs(path) ==
    /\ Len(path) >= 3
    /\ path[Len(path) - 2] = "." /\ path[Len(path) - 1] = "t" /\ path[Len(path)] = "s"

NonEmptyString(x) == x.typeof = "string" /\ x.value # ""

RECURSIVE DropTrailingSlashes(_)
DropTrailingSlashes(path) ==
    IF Len(path) > 0 /\ path[Len(path)] = "/"
    THEN DropTrailingSlashes(SubSeq(path, 1, Len(path) - 1))
    ELSE path

\* the last segment of the path, trailing slashes aside, is a non-empty name
\* followed by ".ts"
HasTsExtension(path) ==
    LET p == DropTrailingSlashes(path) IN
    /\ EndsInDotTs(p)
    /\ Len(p) >= 4
    /\ p[Len(p) - 3] # "/"

\* C7, as stated: validate succeeds if and only if the output file path ends
\* in ".ts" and config.documentFile is a non-empty string; otherwise it throws
\* an error naming the plugin and the violated requirement, the extension first.
C7_AsStated ==
    CalledValidate =>
        /\ ~call.ret.threw <=>
              (EndsInDotTs(call.outputFile) /\ NonEmptyString(call.config.documentFile))
        /\ call.ret.threw =>
              /\ call.ret.error.plugin = "@linear/sdk-plugin"
              /\ call.ret.error.requires =
                    IF ~EndsInDotTs(call.outputFile)
                    THEN "output file extension to be .ts"
                    ELSE "documentFile to be a string path"

\* C7, amended: validate succeeds if and only if the extension of the output
\* file path, as path.extname computes it, is ".ts" (the last segment of the
\* path, trailing slashes aside, is a non-empty name followed by ".ts") and
\* config.documentFile is a non-empty string; otherwise it throws an error
\* naming the plugin and the violated requirement, the extension first.
C7_Validate ==
    CalledValidate =>
        /\ ~call.ret.threw <=>
              (HasTsExtension(call.outputFile) /\ NonEmptyString(call.config.documentFile))
        /\ call.ret.threw =>
              /\ call.ret.error.plugin = "@linear/sdk-plugin"
              /\ call.ret.error.requires =
                    IF ~HasTsExtension(call.outputFile)
                    THEN "output file extension to be .ts"
                    ELSE "documentFile to be a string path"

\* the output file ".ts" ends in ".ts" and is rejected for its extension
C7_Witness ==
    /\ CalledValidate
    /\ call.outputFile = <<".", "t", "s">>
    /\ NonEmptyString(call.config.documentFile)
    /\ call.ret.threw
    /\ call.ret.error.requires = "output file extension to be .ts"

(***************************************************************************)
(* Properties of plugin                                                    *)
(***************************************************************************)
\* every chain visitor has been created
Classified == pc \in {"print", "returned"}

\* the root group, then the group of every chain key
Groups == <<rootVisitor.documents>> \o [i \in DOMAIN chainVisitors |-> chainVisitors[i].documents]

RECURSIVE SumOfLengths(_)
SumOfLengths(gs) ==
    IF Len(gs) = 0 THEN 0 ELSE Len(gs[1]) + SumOfLengths(SubSeq(gs, 2, Len(gs)))

\* C4: the root group and the groups of the chain keys partition the
\* processed documents: every document is in exactly one group, the root
\* group when its path is empty and else the group of its leading path
\* segment; the sizes add up to the number of documents; every group keeps
\* the relative order of the input.
C4_ClassificationPartitions ==
    Classified =>
        /\ Len(chainVisitors) = Len(chainKeys)
        /\ \A j \in DOMAIN sdkDocuments :
              /\ Cardinality({g \in DOMAIN Groups :
                    \E a \in DOMAIN Groups[g] : Groups[g][a] = sdkDocuments[j]}) = 1
              /\ IF sdkDocuments[j].path = <<>>
                 THEN sdkDocuments[j] \in Range(Groups[1])
                 ELSE \E i \in DOMAIN chainKeys :
                        /\ chainKeys[i] = sdkDocuments[j].path[1]
                        /\ sdkDocuments[j] \in Range(Groups[i + 1])
        /\ \A i, k \in DOMAIN chainKeys : chainKeys[i] = chainKeys[k] => i = k
        /\ SumOfLengths(Groups) = Len(sdkDocuments)
        /\ \A g \in DOMAIN Groups : \A a, b \in DOMAIN Groups[g] :
              a < b => Groups[g][a].location < Groups[g][b].location

\* a root document and two chain keys, one of them with a two-segment path
C4_Witness ==
    /\ pc = "returned"
    /\ Len(rootDocuments) = 1
    /\ Len(chainKeys) = 2
    /\ \E d \in Range(sdkDocuments) : Len(d.path) = 2

StepIndex(s) == CHOOSE i \in DOMAIN TrySteps : TrySteps[i] = s

\* C8: when a step of plugin raises, plugin logs that exception once at
\* fatal level and throws that same exception; it returns no output, and no
\* later step has run.  When no step raises, nothing is logged at fatal
\* level and an output with prepend and content is returned.
C8_FatalThenRethrow ==
    /\ raised # NotRaised =>
          /\ pc = "thrown"
          /\ fatalLog = <<raised.error>>
          /\ thrown = raised.error
          /\ result = JsUndefined
          /\ LET k == StepIndex(raised.step) IN
             /\ k <= 1 => sdkDocuments = <<>>
             /\ k <= 2 => rootDocuments = <<>>
             /\ k <= 3 => rootFragments = <<>>
             /\ k <= 4 => rootVisitor = JsUndefined
             /\ k <= 5 => chainKeys = <<>>
             /\ k <= 6 => (chainVisitors = <<>> \/ Len(chainVisitors) < Len(chainKeys))
    /\ pc = "thrown" => raised # NotRaised
    /\ pc = "returned" =>
          /\ raised = NotRaised
          /\ fatalLog = <<>>
          /\ thrown = NoException
          /\ DOMAIN result = {"prepend", "content"}
    /\ pc \notin {"thrown", "returned"} => (fatalLog = <<>> /\ result = JsUndefined)

\* the second call of the chainKeys.map callback raised
C8_Witness ==
    /\ pc = "thrown"
    /\ raised.step = "createChainVisitors"
    /\ Len(chainVisitors) = 1
    /\ Len(chainKeys) = 2
    /\ fatalLog = <<thrown>>
    /\ thrown \in Exceptions

\* C9: the content plugin returns is, joined by newlines: the import of the
\* document module, its re-export, the requester type, one block per
\* distinct chain key in the order of getChainKeys, and last the root block;
\* every visitor was created with the same root fragments.
C9_ContentOrder ==
    pc = "returned" =>
        LET n == Len(chainKeys)
            content == result.content
        IN /\ Len(content) = 2 * (n + 4) - 1
           /\ content[1] = [text |-> "import * as", namespace |-> "D",
                            from |-> config.documentFile]
           /\ content[3] = [text |-> "export * from", from |-> config.documentFile]
           /\ content[5] = [text |-> "requester type"]
           /\ \A i \in 1..n : content[5 + 2 * i] = [text |-> "sdk", chainKey |-> chainKeys[i]]
           /\ content[2 * n + 7] = [text |-> "sdk", chainKey |-> "undefined"]
           /\ \A i \in 1..(n + 3) : content[2 * i] = [text |-> "\n"]
           /\ n = Cardinality({d.path[1] : d \in {x \in Range(sdkDocuments) : x.path # <<>>}})
           /\ rootVisitor.fragments = rootFragments
           /\ \A i \in DOMAIN chainVisitors : chainVisitors[i].fragments = rootFragments

C9_Witness ==
    /\ pc = "returned"
    /\ chainKeys = <<"team", "issue">>
    /\ Len(rootFragments) = 1
    /\ result.content[7] = [text |-> "sdk", chainKey |-> "team"]
    /\ result.content[9] = [text |-> "sdk", chainKey |-> "issue"]
    /\ result.content[11] = [text |-> "sdk", chainKey |-> "undefined"]

\* C10: the prepend list plugin returns starts with the eslint-disable line,
\* ends with the ResultOf import, holds the DocumentNode import if and only
\* if config.documentMode is not the string mode, so has 2 lines in string
\* mode and 3 lines otherwise, and holds no undefined entry.
C10_Prepend ==
    pc = "returned" =>
        LET prepend == result.prepend
            stringMode == config.documentMode = "string"
        IN /\ prepend[1] = EslintDisable
           /\ prepend[Len(prepend)] = ImportResultOf
           /\ (\E i \in DOMAIN prepend : prepend[i] = ImportDocumentNode) <=> ~stringMode
           /\ Len(prepend) = IF stringMode THEN 2 ELSE 3
           /\ \A i \in DOMAIN prepend : prepend[i] # JsUndefined

C10_Witness ==
    /\ pc = "returned"
    /\ config.documentMode = "string"
    /\ result.prepend = <<EslintDisable, ImportResultOf>>

====
